---- MODULE Spec2Model ----
(***************************************************************************)
(* Client-side glue of the RecommenderSystem-UI frontend:                  *)
(*   - multipartUploadDataset (lib/api/index.ts): chunked upload through   *)
(*     presigned URLs, one part at a time, then the commit request;        *)
(*   - apiClient's request / response interceptors (lib/api/client.ts):    *)
(*     token expiry check, refresh, retry on 401;                          *)
(*   - job-state polling of the training page and of the dashboard;        *)
(*   - the upload form of the datasets page (app/datasets/page.tsx), which *)
(*     runs multipartUploadDataset and can cancel it.                      *)
(* The interceptors and the polling share no state with the rest, so each  *)
(* has its own specification; the polling has one for the pages following  *)
(* a job and one for the training page starting jobs; the upload has one   *)
(* for the function alone and one for the function as the datasets page    *)
(* runs it.                                                                *)
(***************************************************************************)
EXTENDS Integers, Sequences, FiniteSets, Bags, TLC

\* ------------------------------------------------------------------------
\* Bounds of the model
\* ------------------------------------------------------------------------

\* file sizes go up to MaxChunks * MIN_PART_SIZE + 1 bytes
MaxChunks == 2

\* requests made through apiClient
MaxRequests == 2

\* the clock runs from 0 to MaxTime
MaxTime == 2

\* token pairs the server issues
MaxGen == 2

\* lifetimes of the issued access and refresh tokens, in clock ticks
AccessLife == 1

RefreshLife == AccessLife + 1

\* how long before its arrival a pair may have been issued: long enough for
\* its access token to have expired on the way
MaxDelay == AccessLife + 1

\* jobs started from the training page
MaxStarts == 1

\* loadJobState / refreshLatestTrainingState calls in flight at a time
MaxLoads == 2

\* uploads submitted from the datasets page
MaxUploads == 2

\* requests of the datasets page's list in flight at a time: the loadDatasets
\* calls of the mount effect and of the retry button, and the deletions
MaxPageRequests == 1

VARIABLES
  upPc,            \* where multipartUploadDataset is suspended
  totalBytes,      \* file.size
  initResp,        \* the JSON of the init response
  partNumber,      \* the loop variable
  parts,           \* the {part_number, etag} list collected so far
  uploadedBytes,   \* bytes reported through onProgressBytes
  upInflight,      \* requests of the upload awaiting their response
  upSent,          \* every request issued so far, in order
  upChunks,        \* the byte range PUT for each part so far
  upOk,            \* the requests answered with an OK response
  completeBody     \* the parts of the complete request's body

upVars == <<upPc, totalBytes, initResp, partNumber, parts, uploadedBytes,
            upInflight, upSent, upChunks, upOk, completeBody>>

VARIABLES
  access_token,    \* localStorage 'access_token'
  refresh_token,   \* localStorage 'refresh_token'
  now,             \* Date.now() / 1000
  srvGen,          \* number of token pairs the server has issued
  redirecting,     \* window.__redirectingToLogin
  req              \* the requests made through apiClient, one config each

authVars == <<access_token, refresh_token, now, srvGen, redirecting, req>>

VARIABLES
  page,            \* the page that is mounted: "training" or "dashboard"
  mounted,         \* its mount effects have run
  storage,         \* localStorage 'training:lastJobId:<subject>', NoJob if absent
  srvTerminal,     \* the jobs the server has reported as ended
  started,         \* number of jobs started from the training page
  persistedJobId,  \* training page state, as of the last render
  trainingState,   \* training page state, as of the last render
  pollDelayMs,     \* training page state, as of the last render
  submitting,      \* training page state, as of the last render
  queued,          \* the state updates of the training page not yet rendered
  pollDue,         \* the polling effect has to run for the last render
  onVisibleJob,    \* the persistedJobId the visibilitychange listener was made with
  timer,           \* the timeout of the training page's polling effect
  trainPc,         \* where handleTrain is suspended
  restorePc,       \* where restoreLastJob is suspended
  loads,           \* the loadJobState / refreshLatestTrainingState calls in flight
  latestTrainingState,  \* dashboard state, as of the last render
  dQueued,         \* the state updates of the dashboard not yet rendered
  intervalDue,     \* the dashboard's polling effect has to run for the last render
  interval         \* the dashboard's polling interval: its period, 0 if not set

pageVars == <<page, mounted, storage, srvTerminal, started, persistedJobId, trainingState,
              pollDelayMs, submitting, queued, pollDue, onVisibleJob, timer,
              trainPc, restorePc, loads, latestTrainingState, dQueued, intervalDue,
              interval>>

VARIABLES
  uploads,         \* number of handleUpload calls so far; the latest one's number
  upRun,           \* the handleUpload call whose multipartUploadDataset upVars describe
  uploadLoading,   \* datasets page state, with the updates made so far
  uploadProgress,  \* datasets page state, with the updates made so far
  uploadAbortRef,  \* uploadAbortRef.current: its controller's number, NoController if null
  aborted,         \* the controllers whose signal is aborted
  listing,         \* the handleUpload calls suspended in  await loadDatasets()
  datasets,        \* datasets page state with the updates made so far: the rows, [id, optimistic]
  alerts,          \* the handleUpload calls that showed an alert
  loading,         \* datasets page state, with the updates made so far
  error,           \* the same: an error message is set
  pageLists,       \* the loadDatasets calls of the mount effect and of onRetry in flight
  deleting,        \* the datasets whose handleDelete awaits datasetApi.delete
  screen           \* datasets page state as of the last render: what is on screen

listVars == <<loading, error, pageLists, deleting>>

dsVars == <<uploads, upRun, uploadLoading, uploadProgress, uploadAbortRef, aborted,
            listing, datasets, alerts, listVars, screen>>

vars == <<upVars, authVars, pageVars, dsVars>>

\* ------------------------------------------------------------------------
\* Generic helpers
\* ------------------------------------------------------------------------

\* JavaScript's undefined / null / "absent key"
Undefined == "<undefined>"

Min(a, b) == IF a <= b THEN a ELSE b

Max(a, b) == IF a >= b THEN a ELSE b

\* Math.ceil(a / b) for a >= 0, b > 0
CeilDiv(a, b) == (a + b - 1) \div b

\* String(v): the text of a value; String(undefined) is the text "undefined"
JsString(v) == IF v = Undefined THEN "undefined" ELSE v

\* !s for a string: only the empty string is falsy
Falsy(s) == s = ""

\* ========================================================================
\* PART 1: multipartUploadDataset
\* ========================================================================

\* 5 * 1024 * 1024
MIN_PART_SIZE == 5242880

\* 16 * 1024 * 1024
DEFAULT_PART_SIZE == 16777216

\* the characters ETag header values are made of here
Quote == "q"

Space == " "

\* etagRaw.replace(/^W\//, '')
StripWeak(s) ==
  IF Len(s) >= 2 /\ s[1] = "W" /\ s[2] = "/" THEN SubSeq(s, 3, Len(s)) ELSE s

\* .replace(/^"|"$/g, ''): one leading and one trailing quote, each if present
StripQuotes(s) ==
  LET a == IF Len(s) >= 1 /\ s[1] = Quote THEN SubSeq(s, 2, Len(s)) ELSE s
  IN  IF Len(a) >= 1 /\ a[Len(a)] = Quote THEN SubSeq(a, 1, Len(a) - 1) ELSE a

RECURSIVE TrimLeft(_)
TrimLeft(s) ==
  IF Len(s) >= 1 /\ s[1] = Space THEN TrimLeft(SubSeq(s, 2, Len(s))) ELSE s

RECURSIVE TrimRight(_)
TrimRight(s) ==
  IF Len(s) >= 1 /\ s[Len(s)] = Space THEN TrimRight(SubSeq(s, 1, Len(s) - 1)) ELSE s

\* .trim()
Trim(s) == TrimRight(TrimLeft(s))

\* const etag = etagRaw.replace(/^W\//, '').replace(/^"|"$/g, '').trim()
NormalizeEtag(etagRaw) == Trim(StripQuotes(StripWeak(etagRaw)))

\* a faulty variant: the empty ETag is accepted
EtagAcceptedMutant(etag) == TRUE

\* if (!etag) throw ...
EtagAccepted(etag) == etag # <<>>

\* Number.isFinite(p) ? Math.max(5 MiB, Number(p)) : 16 MiB
\* (a field is [finite |-> Number.isFinite(p), value |-> Number(p)])
PartSizeOf(part_size_bytes) ==
  IF part_size_bytes.finite THEN Max(MIN_PART_SIZE, part_size_bytes.value)
  ELSE DEFAULT_PART_SIZE

\* a faulty variant: the part count is rounded down
TotalPartsMutant(size, psize) == Max(1, size \div psize)

\* Math.max(1, Math.ceil(totalBytes / partSize))
TotalParts(size, psize) == Max(1, CeilDiv(size, psize))

\* const start = (partNumber - 1) * partSize
ChunkStart(pn, psize) == (pn - 1) * psize

\* const end = Math.min(start + partSize, totalBytes)
ChunkEnd(pn, psize, size) ==
  Min(ChunkStart(pn, psize) + psize, size)

\* file.slice(start, end): Blob.slice clamps both ends into [0, size] and
\* gives an empty blob when end <= start
FileSlice(size, start, end) ==
  LET s == Max(0, Min(start, size))
      e == Max(0, Min(end, size))
  IN  [from |-> s, to |-> Max(s, e)]

\* the loop condition  partNumber <= totalParts
LoopContinues(pn, total) == pn <= total

\* a faulty variant: every second part is skipped
NextPartMutant(pn) == pn + 2

\* partNumber++
NextPart(pn) == pn + 1

RECURSIVE SortedInsert(_, _)
SortedInsert(sorted, p) ==
  IF sorted = <<>> THEN <<p>>
  ELSE IF sorted[1].part_number - p.part_number > 0
       THEN <<p>> \o sorted
       ELSE <<sorted[1]>> \o SortedInsert(Tail(sorted), p)

\* [...parts].sort((a, b) => a.part_number - b.part_number): a stable sort
RECURSIVE SortParts(_)
SortParts(ps) ==
  IF ps = <<>> THEN <<>>
  ELSE SortedInsert(SortParts(SubSeq(ps, 1, Len(ps) - 1)), ps[Len(ps)])

\* file sizes around the multiples of the smallest part size
FileSizes ==
  { n \in { k * MIN_PART_SIZE + d : k \in 0..MaxChunks, d \in {-1, 0, 1} } : n >= 0 }

\* part_size_bytes of the init response
NotFinite == [finite |-> FALSE, value |-> 0]

PartSizeFields ==
  {NotFinite} \cup
  { [finite |-> TRUE, value |-> v] :
      v \in {-1, 1, MIN_PART_SIZE, MIN_PART_SIZE + 1, 2 * MIN_PART_SIZE} }

\* dataset_id / upload_id of the init response
IdFields == {Undefined, "", "id1"}

\* access tokens handed to multipartUploadDataset, as texts: none (null or
\* ''), a blank one, a real one
UploadTokens == { <<>>, <<Space>>, <<"t">> }

\* apiClient.defaults.baseURL, as texts
BaseURLs == { <<>>, <<"/">>, <<"u">>, <<"u", "/">> }

\* .replace(/\/$/, '')
StripTrailingSlash(s) ==
  IF Len(s) >= 1 /\ s[Len(s)] = "/" THEN SubSeq(s, 1, Len(s) - 1) ELSE s

\* const t = String(token || '').trim(); if (!t) throw ...
TokenUsable(token) == Trim(token) # <<>>

\* ETag header values; <<>> is a missing header (headers.get gives null)
EtagHeaders ==
  { <<>>, <<Quote, Quote>>, <<Space>>, <<"a">>, <<Quote, "b", Quote>>,
    <<"W", "/", Quote, "a", Quote>>, <<"W", "/">> }

NoInit == [dataset_id |-> Undefined, upload_id |-> Undefined, part_size_bytes |-> NotFinite]

datasetId == JsString(initResp.dataset_id)

uploadId == JsString(initResp.upload_id)

partSize == PartSizeOf(initResp.part_size_bytes)

totalParts == TotalParts(totalBytes, partSize)

Req(kind, n) == [kind |-> kind, part |-> n]

UploadInit ==
  /\ upPc = "idle"
  /\ totalBytes = 0
  /\ initResp = NoInit
  /\ partNumber = 0
  /\ parts = <<>>
  /\ uploadedBytes = 0
  /\ upInflight = {}
  /\ upSent = <<>>
  /\ upChunks = <<>>
  /\ upOk = {}
  /\ completeBody = <<>>

\* the awaited response of request prev arrived (none at the call), request r
\* goes out and the function awaits its response
UpSend(prev, r, pc) ==
  /\ upPc' = pc
  /\ upOk' = IF prev.kind = "none" THEN upOk ELSE upOk \cup {prev}
  /\ upInflight' = (upInflight \ {prev}) \cup {r}
  /\ upSent' = Append(upSent, r)

\* the awaited response of request prev arrived and the function throws
UpThrow(prev) ==
  /\ upPc' = "failed"
  /\ upOk' = upOk
  /\ upInflight' = upInflight \ {prev}
  /\ UNCHANGED upSent

\* the request the function is awaiting (while it reads the body of a response
\* that was not ok, the request of that response)
UpAwaited ==
  IF upPc = "errbody" THEN CHOOSE r \in upInflight : TRUE
  ELSE Req(upPc, IF upPc \in {"presign", "put"} THEN partNumber ELSE 0)

\* multipartUploadDataset(file, token), a call with its own locals: up to the
\* await of the init request
UploadBegin(size, token, baseURL) ==
  /\ totalBytes' = size
  /\ initResp' = NoInit
  /\ partNumber' = 0
  /\ parts' = <<>>
  /\ uploadedBytes' = 0
  /\ upChunks' = <<>>
  /\ completeBody' = <<>>
  /\ upOk' = {}
  /\ IF StripTrailingSlash(baseURL) = <<>> \/ ~TokenUsable(token)
       THEN upPc' = "failed" /\ upInflight' = {} /\ upSent' = <<>>
       ELSE /\ upPc' = "init"
            /\ upInflight' = {Req("init", 0)}
            /\ upSent' = <<Req("init", 0)>>

\* multipartUploadDataset(file, token) called on its own
UploadStart(size, token, baseURL) ==
  /\ upPc = "idle"
  /\ UploadBegin(size, token, baseURL)

\* the head of the for loop: either the presign of the part or, past the last
\* part, the complete request
UpLoopHead(prev, pn, ps, total) ==
  IF LoopContinues(pn, total)
    THEN /\ UpSend(prev, Req("presign", pn), "presign")
         /\ completeBody' = completeBody
    ELSE /\ UpSend(prev, Req("complete", 0), "complete")
         /\ completeBody' = SortParts(ps)

\* the init response arrived with res.ok and a JSON body
InitOk(resp) ==
  /\ upPc = "init"
  /\ initResp' = resp
  /\ IF Falsy(JsString(resp.dataset_id)) \/ Falsy(JsString(resp.upload_id))
       THEN /\ UpThrow(Req("init", 0))
            /\ UNCHANGED <<partNumber, completeBody>>
       ELSE /\ partNumber' = 1
            /\ UpLoopHead(Req("init", 0), 1, parts,
                          TotalParts(totalBytes, PartSizeOf(resp.part_size_bytes)))
  /\ UNCHANGED <<totalBytes, parts, uploadedBytes, upChunks>>

\* a response arrived that is not ok: fetchJson awaits res.json() for the
\* detail, the PUT branch awaits putRes.text()
ResponseNotOk ==
  /\ upPc \in {"init", "presign", "put", "complete"}
  /\ upPc' = "errbody"
  /\ UNCHANGED <<totalBytes, initResp, partNumber, parts, uploadedBytes, upInflight,
                 upSent, upChunks, upOk, completeBody>>

\* the awaited fetch rejected, or the body of a response that was not ok has
\* been read (or could not be read) and the Error is thrown
UploadStepFails ==
  /\ upPc \in {"init", "presign", "put", "complete", "errbody"}
  /\ UpThrow(UpAwaited)
  /\ UNCHANGED <<totalBytes, initResp, partNumber, parts, uploadedBytes, upChunks, completeBody>>

\* the presign response arrived: PUT the chunk to the presigned URL
PresignOk ==
  /\ upPc = "presign"
  /\ UpSend(Req("presign", partNumber), Req("put", partNumber), "put")
  /\ upChunks' = Append(upChunks,
        FileSlice(totalBytes, ChunkStart(partNumber, partSize),
                  ChunkEnd(partNumber, partSize, totalBytes)))
  /\ UNCHANGED <<totalBytes, initResp, partNumber, parts, uploadedBytes, completeBody>>

\* the PUT returned ok with the given ETag header
PutOk(etagRaw) ==
  /\ upPc = "put"
  /\ LET etag == NormalizeEtag(etagRaw)
         chunk == upChunks[Len(upChunks)]
     IN  IF ~EtagAccepted(etag)
           THEN /\ UpThrow(Req("put", partNumber))
                /\ UNCHANGED <<partNumber, parts, uploadedBytes, completeBody>>
           ELSE /\ parts' = Append(parts, [part_number |-> partNumber, etag |-> etag])
                /\ uploadedBytes' = uploadedBytes + (chunk.to - chunk.from)
                /\ partNumber' = NextPart(partNumber)
                /\ UpLoopHead(Req("put", partNumber), NextPart(partNumber), parts', totalParts)
  /\ UNCHANGED <<totalBytes, initResp, upChunks>>

\* the complete response arrived
CompleteOk ==
  /\ upPc = "complete"
  /\ upPc' = "done"
  /\ upInflight' = upInflight \ {Req("complete", 0)}
  /\ upOk' = upOk \cup {Req("complete", 0)}
  /\ UNCHANGED <<totalBytes, initResp, partNumber, parts, uploadedBytes, upSent,
                 upChunks, completeBody>>


\* ========================================================================
\* PART 2: apiClient's interceptors (lib/api/client.ts)
\* ========================================================================

\* a JWT: gen tells the token pairs apart, hasExp is "decodes and has a
\* numeric exp claim", exp is that claim
Token(g, e) == [gen |-> g, hasExp |-> TRUE, exp |-> e]

\* a stored string that is no JWT, or a JWT without exp
Undecodable == [gen |-> 0, hasExp |-> FALSE, exp |-> 0]

\* localStorage.getItem gave null
NoToken == [gen |-> -1, hasExp |-> FALSE, exp |-> 0]

\* localStorage holds the empty string
EmptyToken == [gen |-> -2, hasExp |-> FALSE, exp |-> 0]

\* the truthiness of what getAccessToken() or getRefreshToken() returned
Truthy(token) == token \notin {NoToken, EmptyToken}

\* isTokenExpired(token) at the time now
isTokenExpired(token, t) ==
  IF ~token.hasExp THEN TRUE ELSE token.exp < t

\* a faulty variant: the refresh token is left in localStorage
clearTokensMutant == [access |-> NoToken, refresh |-> Token(0, 0)]

\* clearTokens(): the pair left in localStorage
clearTokens == [access |-> NoToken, refresh |-> NoToken]

\* the pages on which redirectToLoginIfNeeded() does nothing
AuthPages == {"/login", "/register"}

\* the values of window.location.pathname
Pathnames == AuthPages \cup {"/dashboard"}

\* redirectToLoginIfNeeded(): window.__redirectingToLogin afterwards
redirectToLoginIfNeeded(path, flag) ==
  IF path \in AuthPages THEN flag ELSE TRUE

\* window.__redirectingToLogin after a call of redirectToLoginIfNeeded() made
\* on whichever page is shown
Redirected(flag) == { redirectToLoginIfNeeded(path, flag) : path \in Pathnames }

\* a faulty variant: _retry is not looked at
ShouldRefreshOn401Mutant(status, retry) == status = 401

\* error.response?.status === 401 && !originalRequest._retry
ShouldRefreshOn401(status, retry) == status = 401 /\ ~retry

\* refreshToken && !isTokenExpired(refreshToken)
CanRefresh(rt, t) == Truthy(rt) /\ ~isTokenExpired(rt, t)

Requests == 1..MaxRequests

\* a request config: pc is where its promise chain stands, retry is _retry,
\* auth the Authorization header, used the refresh token of the refresh it
\* awaits; sends, refreshes and resends count its transmissions, the refreshes
\* of the response interceptor for it and its apiClient(originalRequest) calls
FreshRequest ==
  [pc |-> "free", retry |-> FALSE, auth |-> NoToken, used |-> NoToken,
   sends |-> 0, refreshes |-> 0, resends |-> 0]

\* the requests are numbered in the order in which they are made: i is the
\* next one
NextRequest(i) == req[i].pc = "free" /\ \A j \in 1..(i - 1) : req[j].pc # "free"

\* the promise of the request is settled; its config is of no use any more
Settled(r, pc) == [FreshRequest EXCEPT !.pc = pc]

\* the token pairs localStorage can hold at the start
InitAccessTokens ==
  {NoToken, EmptyToken, Undecodable, Token(0, 0), Token(0, MaxTime + 1)}

InitRefreshTokens == {NoToken, EmptyToken, Token(0, 0), Token(0, MaxTime + 1)}

\* the pairs the server can return now: it issued them just now or MaxDelay
\* ago on the client's clock (a slow response, or a client clock that is ahead)
IssuedPairs ==
  { [access |-> Token(srvGen + 1, t + AccessLife), refresh |-> Token(srvGen + 1, t + RefreshLife)] :
      t \in {now, Max(0, now - MaxDelay)} }

\* status codes of error responses; 0 is an error without a response
ErrorStatuses == {0, 401, 500}

AuthInit ==
  /\ access_token \in InitAccessTokens
  /\ refresh_token \in InitRefreshTokens
  /\ now = 0
  /\ srvGen = 0
  /\ redirecting = FALSE
  /\ req = [i \in Requests |-> FreshRequest]

\* the request interceptor runs for request i, whose config is r, with at and
\* rt in localStorage, up to its await of the refresh or to its return
RequestInterceptor(i, r, at, rt) ==
  IF Truthy(at) /\ isTokenExpired(at, now)
    THEN IF CanRefresh(rt, now)
           THEN /\ req' = [req EXCEPT ![i] = [r EXCEPT !.pc = "reqRefresh", !.used = rt]]
                /\ access_token' = at
                /\ refresh_token' = rt
                /\ redirecting' = redirecting
           ELSE /\ req' = [req EXCEPT ![i] = Settled(r, "rejected")]
                /\ access_token' = clearTokens.access
                /\ refresh_token' = clearTokens.refresh
                /\ redirecting' \in Redirected(redirecting)
    ELSE /\ req' = [req EXCEPT ![i] =
                      [r EXCEPT !.pc = "sent",
                                !.auth = IF Truthy(at) THEN at ELSE r.auth,
                                !.used = NoToken,
                                !.sends = r.sends + 1]]
         /\ access_token' = at
         /\ refresh_token' = rt
         /\ redirecting' = redirecting

\* apiClient(config): a new request enters the request interceptor
Issue(i) ==
  /\ NextRequest(i)
  /\ RequestInterceptor(i, req[i], access_token, refresh_token)
  /\ UNCHANGED <<now, srvGen>>

\* the refresh awaited by the request interceptor succeeded with pair p
ReqRefreshOk(i, p) ==
  /\ req[i].pc = "reqRefresh"
  /\ srvGen < MaxGen
  /\ srvGen' = srvGen + 1
  /\ access_token' = p.access
  /\ refresh_token' = p.refresh
  /\ req' = [req EXCEPT ![i].pc = "sent", ![i].auth = p.access, ![i].used = NoToken,
                        ![i].sends = @ + 1]
  /\ UNCHANGED <<now, redirecting>>

\* the refresh awaited by the request interceptor failed
ReqRefreshFail(i) ==
  /\ req[i].pc = "reqRefresh"
  /\ access_token' = clearTokens.access
  /\ refresh_token' = clearTokens.refresh
  /\ redirecting' \in Redirected(redirecting)
  /\ req' = [req EXCEPT ![i] = Settled(req[i], "rejected")]
  /\ UNCHANGED <<now, srvGen>>

\* a 2xx response: the response interceptor passes it on
ResponseOk(i) ==
  /\ req[i].pc = "sent"
  /\ req' = [req EXCEPT ![i] = Settled(req[i], "resolved")]
  /\ UNCHANGED <<access_token, refresh_token, now, srvGen, redirecting>>

\* an error: the response interceptor up to its await of the refresh or to
\* its rejection
ResponseError(i, status) ==
  /\ req[i].pc = "sent"
  /\ IF ShouldRefreshOn401(status, req[i].retry)
       THEN IF CanRefresh(refresh_token, now)
              THEN /\ req' = [req EXCEPT ![i].pc = "respRefresh", ![i].retry = TRUE,
                                         ![i].used = refresh_token,
                                         ![i].refreshes = @ + 1]
                   /\ UNCHANGED <<access_token, refresh_token, redirecting>>
              ELSE /\ req' = [req EXCEPT ![i] =
                                Settled([req[i] EXCEPT !.retry = TRUE], "rejected")]
                   /\ access_token' = clearTokens.access
                   /\ refresh_token' = clearTokens.refresh
                   /\ redirecting' \in Redirected(redirecting)
       ELSE /\ req' = [req EXCEPT ![i] = Settled(req[i], "rejected")]
            /\ UNCHANGED <<access_token, refresh_token, redirecting>>
  /\ UNCHANGED <<now, srvGen>>

\* the refresh awaited by the response interceptor succeeded with pair p: the
\* pair is stored and apiClient(originalRequest) sends the config through the
\* request interceptor again
RespRefreshOk(i, p) ==
  /\ req[i].pc = "respRefresh"
  /\ srvGen < MaxGen
  /\ srvGen' = srvGen + 1
  /\ RequestInterceptor(i,
        [req[i] EXCEPT !.auth = p.access, !.used = NoToken, !.resends = @ + 1],
        p.access, p.refresh)
  /\ UNCHANGED now

\* the refresh awaited by the response interceptor failed
RespRefreshFail(i) ==
  /\ req[i].pc = "respRefresh"
  /\ access_token' = clearTokens.access
  /\ refresh_token' = clearTokens.refresh
  /\ redirecting' \in Redirected(redirecting)
  /\ req' = [req EXCEPT ![i] = Settled(req[i], "rejected")]
  /\ UNCHANGED <<now, srvGen>>

\* AuthContext's login() once authApi.login has answered with the pair p:
\* setTokens stores the pair and authApi.getCurrentUser() sends request i
\* through the request interceptor
Login(i, p) ==
  /\ NextRequest(i)
  /\ srvGen < MaxGen
  /\ srvGen' = srvGen + 1
  /\ RequestInterceptor(i, req[i], p.access, p.refresh)
  /\ UNCHANGED now

\* AuthContext's logout(): authApi.logout() clears the tokens, whatever the
\* requests in flight are waiting for
Logout ==
  /\ access_token' = clearTokens.access
  /\ refresh_token' = clearTokens.refresh
  /\ UNCHANGED <<now, srvGen, redirecting, req>>

\* time passes
Tick ==
  /\ now < MaxTime
  /\ now' = now + 1
  /\ UNCHANGED <<access_token, refresh_token, srvGen, redirecting, req>>

\* ========================================================================
\* PART 3: job-state polling (app/training/page.tsx, app/dashboard/page.tsx)
\* ========================================================================

POLL_BASE_MS == 3000

POLL_MAX_MS == 15000

\* the dashboard's interval
POLL_MS == 5000

\* no job id (null, or an absent key)
NoJob == 0

\* job 1 exists before the page is opened, the others are started from it
JobIds == 1..(MaxStarts + 1)

\* trainingState === null
NoState == [job_id |-> NoJob, status |-> "null", is_terminal |-> FALSE]

\* emptyState(jobId)
emptyState(jobId) == [job_id |-> jobId, status |-> "null", is_terminal |-> FALSE]

\* normalizeJobStateStatus(status), for a lower-case status without blanks
normalizeJobStateStatus(status) ==
  IF status = "" THEN "null"
  ELSE IF status \in {"running", "in_progress", "in-progress", "started", "processing"}
    THEN "running"
  ELSE IF status \in {"succeeded", "completed", "complete", "done", "success", "finished"}
    THEN "succeeded"
  ELSE IF status \in {"failed", "failure", "error", "errored", "exception"}
    THEN "failed"
  ELSE IF status \in {"canceled", "cancelled", "aborted", "stopped"}
    THEN "canceled"
  ELSE status

\* toTrainingJobState(jobId, payload), restricted to job_id, status and
\* is_terminal; payload.is_terminal is "true", "false" or "absent"
toTrainingJobState(jobId, payload) ==
  LET status == normalizeJobStateStatus(payload.status)
  IN  [job_id |-> IF payload.job_id # NoJob THEN payload.job_id ELSE jobId,
       status |-> status,
       is_terminal |->
         IF payload.is_terminal \in {"true", "false"}
           THEN payload.is_terminal = "true"
           ELSE status \in {"succeeded", "failed", "canceled"}]

\* what the server reports of a job that is still going on, and of one that
\* has come to its end
OngoingReports ==
  { [status |-> "in_progress", is_terminal |-> "false"] }

EndedReports ==
  { [status |-> "completed", is_terminal |-> "absent"] }

\* the payloads of a job-state response for job j: a job that was reported as
\* ended is not reported as going on afterwards
Payloads(j) ==
  { [job_id |-> id, status |-> r.status, is_terminal |-> r.is_terminal] :
      id \in {NoJob, j},
      r \in IF j \in srvTerminal THEN EndedReports
            ELSE OngoingReports \cup EndedReports }

\* the jobs reported as ended, after the response payload for job j
Reported(j, payload) ==
  IF [status |-> payload.status, is_terminal |-> payload.is_terminal] \in EndedReports
    THEN srvTerminal \cup {j}
    ELSE srvTerminal

\* a faulty variant: no training counts as active
isActiveTrainingMutant(pj, ts) == FALSE

\* isActiveTraining
isActiveTraining(pj, ts) ==
  pj # NoJob /\ ts # NoState /\ ~ts.is_terminal /\ ts.status # "failed"

\* the guard of the polling effect:
\* if (!persistedJobId || !trainingState || trainingState.is_terminal) return
PollEffectArms(pj, ts) == ~(pj = NoJob \/ ts = NoState \/ ts.is_terminal)

\* the guard of the dashboard's polling effect
IntervalEffectArms(ts) == ~(ts = NoState \/ ts.is_terminal)

\* a faulty variant: the delay is not capped
NextPollDelayMutant(prev) == Max(POLL_BASE_MS, prev * 2)

\* (prev) => Math.min(POLL_MAX_MS, Math.max(POLL_BASE_MS, prev * 2))
NextPollDelay(prev) == Min(POLL_MAX_MS, Max(POLL_BASE_MS, prev * 2))

\* a faulty variant: 403 and 404 are treated like any other error
DropsTrackingMutant(err) == FALSE

\* statusCode === 403 || statusCode === 404, of an axios error
DropsTracking(err) == err.axios /\ err.status \in {403, 404}

NoTimer == [armed |-> FALSE, jobId |-> NoJob, delay |-> 0]

Armed(jobId, delay) == [armed |-> TRUE, jobId |-> jobId, delay |-> delay]

\* a loadJobState or refreshLatestTrainingState call in flight: the request
\* it awaits (pc), its job, its reason, the state it has got from getJobState
Load(pc, jobId, reason, got) == [pc |-> pc, jobId |-> jobId, reason |-> reason, got |-> got]

\* the calls in flight (a bag: two calls can be alike)
Loads == BagToSet(loads)

HasFree == BagCardinality(loads) < MaxLoads

\* a call starts and awaits its first request
LoadsStart(pc, jobId, reason) == loads (+) SetToBag({Load(pc, jobId, reason, NoState)})

\* call l goes on as call m
LoadsStep(l, m) == (loads (-) SetToBag({l})) (+) SetToBag({m})

\* call l returns
LoadsEnd(l) == loads (-) SetToBag({l})

\* an error of a request: axios is axios.isAxiosError(err), status is
\* err.response?.status with 0 for an error without response
Err(axios, status) == [axios |-> axios, status |-> status]

Errors == { Err(TRUE, s) : s \in {0, 401, 403, 404, 500} } \cup { Err(FALSE, 0) }

\* the errors with which the server refuses a job-state request
Refusals == { err \in Errors : err.axios /\ err.status \in {401, 403, 404} }

\* the values of the select box; "" is the placeholder option
DatasetIds == {"", "d1"}

dashVars == <<latestTrainingState, dQueued, intervalDue, interval>>

trainVars == <<persistedJobId, trainingState, pollDelayMs, submitting, queued, pollDue,
               onVisibleJob, timer, trainPc, restorePc>>

\* the state of the training page as rendered, its effects and its timeout
renderedVars == <<persistedJobId, trainingState, pollDelayMs, submitting, pollDue,
                  onVisibleJob, timer>>

\* no state update of the training page awaits its render
NoUpdates ==
  [dirty |-> FALSE, pj |-> NoJob, ts |-> NoState, tsNew |-> FALSE, pd |-> 0, sub |-> FALSE]

\* no state update of the dashboard awaits its render
DNoUpdates == [dirty |-> FALSE, ts |-> NoState, tsNew |-> FALSE]

PagesInit ==
  /\ page \in {"training", "dashboard"}
  /\ mounted = FALSE
  /\ storage \in {NoJob, 1}
  /\ srvTerminal = {}
  /\ started = 0
  /\ persistedJobId = NoJob
  /\ trainingState = NoState
  /\ pollDelayMs = POLL_BASE_MS
  /\ submitting = FALSE
  /\ queued = NoUpdates
  /\ pollDue = FALSE
  /\ onVisibleJob = NoJob
  /\ timer = NoTimer
  /\ trainPc = "idle"
  /\ restorePc = "idle"
  /\ loads = EmptyBag
  /\ latestTrainingState = NoState
  /\ dQueued = DNoUpdates
  /\ intervalDue = FALSE
  /\ interval = 0

\* the state of the training page with the updates that await their render
\* applied: what a functional update gets as prev, and what the next render
\* returns
Latest ==
  IF queued.dirty THEN queued
  ELSE [dirty |-> FALSE, pj |-> persistedJobId, ts |-> trainingState, tsNew |-> FALSE,
        pd |-> pollDelayMs, sub |-> submitting]

\* the next render gives the polling effect another trainingState object than
\* the last one did
StateObjectChanges(q) == q.ts # trainingState \/ (q.tsNew /\ q.ts # NoState)

\* setPersistedJobId(pj), setTrainingState(ts), setPollDelayMs(pd) and
\* setSubmitting(sub) outside of an event handler: the updates are queued for a
\* later render; fresh says that ts is a new object. Updates that leave every
\* state as it was rendered cause no render.
SetState(pj, ts, fresh, pd, sub) ==
  LET q == [dirty |-> TRUE, pj |-> pj, ts |-> ts, tsNew |-> Latest.tsNew \/ fresh,
            pd |-> pd, sub |-> sub]
  IN  queued' = IF /\ pj = persistedJobId
                   /\ ~StateObjectChanges(q)
                   /\ pd = pollDelayMs
                   /\ sub = submitting
                  THEN NoUpdates
                  ELSE q

\* the polling effect of the training page, run for the rendered state: its
\* cleanup clears the timeout, its body sets a new one if the guard allows
PollingEffect(pj, ts, pd) ==
  IF PollEffectArms(pj, ts) THEN Armed(pj, pd) ELSE NoTimer

\* the effects still due for the last render run (React runs them in a task
\* of their own, and at the latest before it renders again): the polling
\* effect if one of its dependencies changed, the listener effect if
\* persistedJobId changed
RunEffects ==
  /\ timer' = IF pollDue THEN PollingEffect(persistedJobId, trainingState, pollDelayMs)
                ELSE timer
  /\ onVisibleJob' = persistedJobId

\* the effects due for the last render of the training page run
FlushEffects ==
  /\ page = "training"
  /\ pollDue \/ onVisibleJob # persistedJobId
  /\ RunEffects
  /\ pollDue' = FALSE
  /\ UNCHANGED <<page, mounted, storage, srvTerminal, started, persistedJobId, trainingState,
                 pollDelayMs, submitting, queued, trainPc, restorePc, loads>>
  /\ UNCHANGED dashVars

\* React renders the training page with the queued updates and commits; the
\* effects of this render are due afterwards
Commit ==
  /\ page = "training"
  /\ queued.dirty
  /\ RunEffects
  /\ persistedJobId' = queued.pj
  /\ trainingState' = queued.ts
  /\ pollDelayMs' = queued.pd
  /\ submitting' = queued.sub
  /\ pollDue' = ( \/ queued.pj # persistedJobId
                  \/ StateObjectChanges(queued)
                  \/ queued.pd # pollDelayMs )
  /\ queued' = NoUpdates
  /\ UNCHANGED <<page, mounted, storage, srvTerminal, started, trainPc, restorePc, loads>>
  /\ UNCHANGED dashVars

\* the render that a click causes: it runs before anything else does. The
\* effects still due for the last render run first; the render takes every
\* update that awaits its render with it, together with the click's own
\* (sub is the submitting it shows); and the effects of this render run with
\* its commit: the polling effect if one of its dependencies changed, the
\* listener effect if persistedJobId changed. Nothing stays queued or due.
ClickRender(sub) ==
  LET q       == Latest
      due     == IF pollDue THEN PollingEffect(persistedJobId, trainingState, pollDelayMs)
                 ELSE timer
      changed == q.pj # persistedJobId \/ StateObjectChanges(q) \/ q.pd # pollDelayMs
  IN  /\ persistedJobId' = q.pj
      /\ trainingState' = q.ts
      /\ pollDelayMs' = q.pd
      /\ submitting' = sub
      /\ timer' = IF changed THEN PollingEffect(q.pj, q.ts, q.pd) ELSE due
      /\ onVisibleJob' = q.pj
      /\ pollDue' = FALSE
      /\ queued' = NoUpdates

\* the state of the dashboard with the updates that await their render applied
DLatest ==
  IF dQueued.dirty THEN dQueued
  ELSE [dirty |-> FALSE, ts |-> latestTrainingState, tsNew |-> FALSE]

\* the next render gives the dashboard's polling effect another object
DStateObjectChanges(q) == q.ts # latestTrainingState \/ (q.tsNew /\ q.ts # NoState)

\* setLatestTrainingState(ts); fresh says that ts is a new object
DSetState(ts, fresh) ==
  LET q == [dirty |-> TRUE, ts |-> ts, tsNew |-> DLatest.tsNew \/ fresh]
  IN  dQueued' = IF DStateObjectChanges(q) THEN q ELSE DNoUpdates

\* the dashboard's polling effect, run for the rendered state
IntervalEffect(ts) == IF IntervalEffectArms(ts) THEN POLL_MS ELSE 0

\* the polling effect due for the last render of the dashboard runs
DFlushEffects ==
  /\ page = "dashboard"
  /\ intervalDue
  /\ interval' = IntervalEffect(latestTrainingState)
  /\ intervalDue' = FALSE
  /\ UNCHANGED <<page, mounted, storage, srvTerminal, started, latestTrainingState, dQueued,
                 loads>>
  /\ UNCHANGED trainVars

\* React renders the dashboard with the queued updates and commits
DCommit ==
  /\ page = "dashboard"
  /\ dQueued.dirty
  /\ interval' = IF intervalDue THEN IntervalEffect(latestTrainingState) ELSE interval
  /\ latestTrainingState' = dQueued.ts
  /\ intervalDue' = DStateObjectChanges(dQueued)
  /\ dQueued' = DNoUpdates
  /\ UNCHANGED <<page, mounted, storage, srvTerminal, started, loads>>
  /\ UNCHANGED trainVars

\* ---- training page ----

\* the effects of the first render: the mount effect calls loadDatasets() and
\* restoreLastJob(), which runs up to its first await; the polling effect sets
\* no timeout and the listener is made with persistedJobId = null
TMount ==
  /\ page = "training"
  /\ ~mounted
  /\ mounted' = TRUE
  /\ IF storage # NoJob
       THEN /\ HasFree
            /\ SetState(storage,
                        IF Latest.ts = NoState THEN emptyState(storage) ELSE Latest.ts,
                        Latest.ts = NoState, Latest.pd, Latest.sub)
            /\ loads' = LoadsStart("state", storage, "mount")
            /\ restorePc' = "idle"
       ELSE /\ restorePc' = "models"
            /\ UNCHANGED <<queued, loads>>
  /\ UNCHANGED <<page, storage, srvTerminal, started, trainPc>>
  /\ UNCHANGED renderedVars
  /\ UNCHANGED dashVars

\* restoreLastJob after getLatestRunningJobFromModels: result is the id of
\* the latest running job, NoJob if there is none or the request failed
RestoreModelsDone(result) ==
  /\ restorePc = "models"
  /\ restorePc' = "idle"
  /\ IF result # NoJob
       THEN /\ HasFree
            /\ storage' = result
            /\ SetState(result, emptyState(result), TRUE, Latest.pd, Latest.sub)
            /\ loads' = LoadsStart("state", result, "mount")
       ELSE UNCHANGED <<storage, queued, loads>>
  /\ UNCHANGED <<page, mounted, srvTerminal, started, trainPc>>
  /\ UNCHANGED renderedVars
  /\ UNCHANGED dashVars

\* the timeout of the polling effect fires: loadJobState(persistedJobId, 'poll')
\* with the persistedJobId of the render the effect ran for
TimerFire ==
  /\ timer.armed
  /\ HasFree
  /\ loads' = LoadsStart("state", timer.jobId, "poll")
  /\ timer' = NoTimer
  /\ UNCHANGED <<page, mounted, storage, srvTerminal, started, persistedJobId, trainingState,
                 pollDelayMs, submitting, queued, pollDue, onVisibleJob, trainPc,
                 restorePc>>
  /\ UNCHANGED dashVars

\* visibilitychange to visible: loadJobState(persistedJobId, 'focus') with the
\* persistedJobId the listener was made with
Visible ==
  /\ page = "training"
  /\ mounted
  /\ onVisibleJob # NoJob
  /\ HasFree
  /\ loads' = LoadsStart("state", onVisibleJob, "focus")
  /\ UNCHANGED <<page, mounted, storage, srvTerminal, started, trainPc, restorePc, queued>>
  /\ UNCHANGED renderedVars
  /\ UNCHANGED dashVars

\* the retry button of the error message that is shown when loadDatasets
\* failed, with the persistedJobId of the render that made the button.
\* loadDatasets touches nothing of the job tracking, but its setLoading(true)
\* is the update of a click and brings the click's render with it.
Retry ==
  /\ page = "training"
  /\ mounted
  /\ IF persistedJobId # NoJob
       THEN /\ HasFree
            /\ loads' = LoadsStart("state", persistedJobId, "focus")
       ELSE loads' = loads
  /\ ClickRender(Latest.sub)
  /\ UNCHANGED <<page, mounted, storage, srvTerminal, started, trainPc, restorePc>>
  /\ UNCHANGED dashVars

\* a click on the start button as it was rendered (disabled while submitting,
\* without a dataset or during an active training) with dataset d chosen in
\* the select box: handleTrain up to the await of trainAsync, and the render
\* of the click with setSubmitting(true).
HandleTrain(d) ==
  /\ page = "training"
  /\ mounted
  /\ ~(submitting \/ d = "" \/ isActiveTraining(persistedJobId, trainingState))
  /\ started < MaxStarts
  /\ d # ""
  /\ ClickRender(TRUE)
  /\ trainPc' = "starting"
  /\ UNCHANGED <<page, mounted, storage, srvTerminal, started, restorePc, loads>>
  /\ UNCHANGED dashVars

\* trainAsync returned the new job: handleTrain up to the await of loadJobState
TrainAsyncOk ==
  /\ trainPc = "starting"
  /\ HasFree
  /\ LET job == started + 2
     IN  /\ started' = started + 1
         /\ storage' = job
         /\ SetState(job, emptyState(job), TRUE, Latest.pd, Latest.sub)
         /\ loads' = LoadsStart("state", job, "start")
  /\ trainPc' = "loading"
  /\ UNCHANGED <<page, mounted, srvTerminal, restorePc>>
  /\ UNCHANGED renderedVars
  /\ UNCHANGED dashVars

\* trainAsync failed: alert, finally setSubmitting(false)
TrainAsyncFail ==
  /\ trainPc = "starting"
  /\ trainPc' = "idle"
  /\ SetState(Latest.pj, Latest.ts, FALSE, Latest.pd, FALSE)
  /\ UNCHANGED <<page, mounted, storage, srvTerminal, started, restorePc, loads>>
  /\ UNCHANGED renderedVars
  /\ UNCHANGED dashVars

\* loadJobState returned to the handleTrain that awaited it:
\* alert, finally setSubmitting(false)
SubmittingAfterLoad(reason) == IF reason = "start" THEN FALSE ELSE Latest.sub

AfterLoad(reason) == trainPc' = IF reason = "start" THEN "idle" ELSE trainPc

\* once getJobState resolved, loadJobState reads its reason no more: what is
\* left of it is whether handleTrain awaits the call
Rest(reason) == IF reason = "start" THEN "start" ELSE "any"

\* getJobState of loadJobState resolved; getJobProgress is awaited next
StateOk(l, payload) ==
  /\ l \in Loads
  /\ l.pc = "state"
  /\ l.reason # "dash"
  /\ loads' = LoadsStep(l, Load("progress", l.jobId, Rest(l.reason),
                                 toTrainingJobState(l.jobId, payload)))
  /\ srvTerminal' = Reported(l.jobId, payload)
  /\ UNCHANGED <<page, mounted, storage, started>>
  /\ UNCHANGED trainVars
  /\ UNCHANGED dashVars

\* getJobProgress resolved or failed (its failure is ignored): loadJobState
\* stores the state
LoadOk(l) ==
  /\ l \in Loads
  /\ l.pc = "progress"
  /\ loads' = LoadsEnd(l)
  /\ SetState(l.jobId, l.got, TRUE, POLL_BASE_MS, SubmittingAfterLoad(l.reason))
  /\ AfterLoad(l.reason)
  /\ UNCHANGED <<page, mounted, storage, srvTerminal, started, restorePc>>
  /\ UNCHANGED renderedVars
  /\ UNCHANGED dashVars

\* getJobState of loadJobState failed with err: the catch block
LoadFails(l, err) ==
  /\ l \in Loads
  /\ l.pc = "state"
  /\ l.reason # "dash"
  /\ loads' = LoadsEnd(l)
  /\ IF DropsTracking(err)
       THEN /\ storage' = NoJob
            /\ SetState(NoJob, NoState, FALSE, Latest.pd, SubmittingAfterLoad(l.reason))
       ELSE IF err.axios /\ err.status = 401
         THEN /\ SetState(Latest.pj, Latest.ts, FALSE, Latest.pd,
                          SubmittingAfterLoad(l.reason))
              /\ UNCHANGED storage
       ELSE IF err.axios /\ err.status = 0
         THEN /\ SetState(Latest.pj, Latest.ts, FALSE, NextPollDelay(Latest.pd),
                          SubmittingAfterLoad(l.reason))
              /\ UNCHANGED storage
       ELSE /\ SetState(Latest.pj, Latest.ts, FALSE,
                        IF l.reason = "poll" THEN NextPollDelay(Latest.pd)
                        ELSE Latest.pd,
                        SubmittingAfterLoad(l.reason))
            /\ UNCHANGED storage
  /\ AfterLoad(l.reason)
  /\ UNCHANGED <<page, mounted, srvTerminal, started, restorePc>>
  /\ UNCHANGED renderedVars
  /\ UNCHANGED dashVars

\* ---- dashboard ----

\* refreshLatestTrainingState() up to its first await
RefreshStart ==
  /\ HasFree
  /\ loads' = IF storage # NoJob
                THEN LoadsStart("state", storage, "dash")
                ELSE LoadsStart("models", NoJob, "dash")

\* the mount effect of the dashboard
DMount ==
  /\ page = "dashboard"
  /\ ~mounted
  /\ mounted' = TRUE
  /\ RefreshStart
  /\ UNCHANGED <<page, storage, srvTerminal, started>>
  /\ UNCHANGED trainVars
  /\ UNCHANGED dashVars

\* the interval of the dashboard's polling effect fires
IntervalFire ==
  /\ interval # 0
  /\ RefreshStart
  /\ UNCHANGED <<page, mounted, storage, srvTerminal, started>>
  /\ UNCHANGED trainVars
  /\ UNCHANGED dashVars

\* visibilitychange to visible on the dashboard
DVisible ==
  /\ page = "dashboard"
  /\ mounted
  /\ RefreshStart
  /\ UNCHANGED <<page, mounted, storage, srvTerminal, started>>
  /\ UNCHANGED trainVars
  /\ UNCHANGED dashVars

\* getLatestRunningJobFromModels resolved with the id of a running job or
\* with null (NoJob)
DModelsDone(l, result) ==
  /\ l \in Loads
  /\ l.pc = "models"
  /\ IF result # NoJob
       THEN /\ storage' = result
            /\ loads' = LoadsStep(l, Load("state", result, "dash", NoState))
            /\ UNCHANGED dQueued
       ELSE /\ loads' = LoadsEnd(l)
            /\ DSetState(NoState, FALSE)
            /\ UNCHANGED storage
  /\ UNCHANGED <<page, mounted, srvTerminal, started, latestTrainingState, intervalDue,
                 interval>>
  /\ UNCHANGED trainVars

\* getLatestRunningJobFromModels failed: refreshLatestTrainingState rejects
DModelsFail(l) ==
  /\ l \in Loads
  /\ l.pc = "models"
  /\ loads' = LoadsEnd(l)
  /\ UNCHANGED <<page, mounted, storage, srvTerminal, started>>
  /\ UNCHANGED trainVars
  /\ UNCHANGED dashVars

\* getJobState of refreshLatestTrainingState resolved
DStateOk(l, payload) ==
  /\ l \in Loads
  /\ l.pc = "state"
  /\ l.reason = "dash"
  /\ DSetState(toTrainingJobState(l.jobId, payload), TRUE)
  /\ loads' = LoadsEnd(l)
  /\ srvTerminal' = Reported(l.jobId, payload)
  /\ UNCHANGED <<page, mounted, storage, started, latestTrainingState, intervalDue,
                 interval>>
  /\ UNCHANGED trainVars

\* getJobState of refreshLatestTrainingState failed with err
DStateFails(l, err) ==
  /\ l \in Loads
  /\ l.pc = "state"
  /\ l.reason = "dash"
  /\ IF err.status \in {403, 404}
       THEN /\ storage' = NoJob
            /\ DSetState(NoState, FALSE)
       ELSE UNCHANGED <<storage, dQueued>>
  /\ loads' = LoadsEnd(l)
  /\ UNCHANGED <<page, mounted, srvTerminal, started, latestTrainingState, intervalDue,
                 interval>>
  /\ UNCHANGED trainVars

\* the ids getLatestRunningJobFromModels can return
RunningIds == {NoJob} \cup { j \in JobIds : j <= started + 1 }

\* ========================================================================
\* The specifications
\* ========================================================================

AuthIdle ==
  /\ access_token = NoToken
  /\ refresh_token = NoToken
  /\ now = 0
  /\ srvGen = 0
  /\ redirecting = FALSE
  /\ req = [i \in Requests |-> FreshRequest]

PagesIdle ==
  /\ page = "none"
  /\ mounted = FALSE
  /\ storage = NoJob
  /\ srvTerminal = {}
  /\ started = 0
  /\ persistedJobId = NoJob
  /\ trainingState = NoState
  /\ pollDelayMs = POLL_BASE_MS
  /\ submitting = FALSE
  /\ queued = NoUpdates
  /\ pollDue = FALSE
  /\ onVisibleJob = NoJob
  /\ timer = NoTimer
  /\ trainPc = "idle"
  /\ restorePc = "idle"
  /\ loads = EmptyBag
  /\ latestTrainingState = NoState
  /\ dQueued = DNoUpdates
  /\ intervalDue = FALSE
  /\ interval = 0

\* ========================================================================
\* PART 4: the upload form of the datasets page (app/datasets/page.tsx)
\* ========================================================================

\* uploadAbortRef.current === null
NoController == 0

\* the positions at which multipartUploadDataset awaits a response
UpActive == {"init", "presign", "put", "complete", "errbody"}

\* messages of the errors handleUpload catches: the AbortError of an aborted
\* fetch, the Errors multipartUploadDataset throws, with or without a server
\* detail that speaks of a cancellation, and the page's own "unauthorized"
AbortErrorMessage == "The user aborted a request."

PlainMessage == "Part upload failed (part 1): 500"

ServerCancelMessage == "Multipart init failed: 409 - upload cancelled"

UnauthorizedMessage == "unauthorized"

\* 'Access token is required' / 'API base URL is not configured'
ConfigMessage == "Access token is required"

FailureMessages == {PlainMessage, ServerCancelMessage}

\* /abort|canceled|cancelled/i.test(detail)
MentionsAbort(detail) == detail \in {AbortErrorMessage, ServerCancelMessage}

\* if (detail && /abort|canceled|cancelled/i.test(detail)) return;
IgnoredAsAbort(detail) == ~Falsy(detail) /\ MentionsAbort(detail)

\* --- Math.round((uploadedBytes / size) * 100), computed as the code does in
\* --- IEEE 754 doubles, for 0 <= uploadedBytes <= size < 2^30.
\* A number n / d is kept as [q, r] with n = q * d + r and 0 <= r < d, so that
\* no product leaves the integers the model checker has.

Ratio(n, d) == [q |-> n \div d, r |-> n % d]

\* twice the number
RatioTwice(x, d) ==
  [q |-> 2 * x.q + (IF 2 * x.r >= d THEN 1 ELSE 0), r |-> (2 * x.r) % d]

\* the sum of two numbers
RatioPlus(x, y, d) ==
  [q |-> x.q + y.q + (IF x.r + y.r >= d THEN 1 ELSE 0), r |-> (x.r + y.r) % d]

\* a hundred times the number: 100 = ((((1 * 2 + 1) * 2 * 2 * 2) + 1) * 2 * 2)
RatioTimes100(x, d) ==
  LET three      == RatioPlus(RatioTwice(x, d), x, d)
      twentyfour == RatioTwice(RatioTwice(RatioTwice(three, d), d), d)
      twentyfive == RatioPlus(twentyfour, x, d)
  IN  RatioTwice(RatioTwice(twentyfive, d), d)

\* The doubles differ from the exact value by less than 2^-45, which changes
\* the rounding only where the exact percentage is k + 1/2; the quotient is
\* then the double nearest to (2k + 1) / 200, whatever the file, and its
\* product with 100 falls below k + 1/2 for these k (14.499999999999998,
\* 28.499999999999996, 56.49999999999999, 57.49999999999999), where
\* Math.round gives k; for every other k it gives k + 1
HalvesRoundedDown == {14, 28, 56, 57}

\* formData.file?.size ? Math.round((uploadedBytes / formData.file.size) * 100) : 0
ProgressPct(bytes, size) ==
  IF size = 0 THEN 0
  ELSE LET x == RatioTimes100(Ratio(bytes, size), size)
       IN  IF 2 * x.r > size THEN x.q + 1
           ELSE IF 2 * x.r = size /\ x.q \notin HalvesRoundedDown THEN x.q + 1
           ELSE x.q

\* the optimistic row of a finished upload; the id is the dataset the server
\* made for that upload
OptimisticRow(id) == [id |-> id, optimistic |-> TRUE]

\* setDatasets((prev) => [optimistic, ...prev.filter((d) => d.id !== created.id)])
AddOptimistic(prev, id) == {OptimisticRow(id)} \cup { d \in prev : d.id # id }

\* the merge of loadDatasets: optimistic rows the server does not list stay,
\* the server's rows replace the others
MergeDatasets(prev, data) ==
  { d \in prev : d.optimistic /\ d.id \notin data }
    \cup { [id |-> i, optimistic |-> FALSE] : i \in data }

\* the file chosen in the form
FormFileSizes == {2 * MIN_PART_SIZE}

\* what the server answers to the init request of the page's uploads: ids with
\* a part size that gives two parts, ids without part size (one part), and an
\* empty dataset id
FormInitResponses ==
  { [dataset_id |-> "id1", upload_id |-> "id1",
     part_size_bytes |-> [finite |-> TRUE, value |-> MIN_PART_SIZE]],
    [dataset_id |-> "id1", upload_id |-> "id1", part_size_bytes |-> NotFinite],
    [dataset_id |-> "", upload_id |-> "id1", part_size_bytes |-> NotFinite] }

FormEtagHeaders == { <<>>, <<Quote, "b", Quote>> }

DatasetsInit ==
  /\ uploads = 0
  /\ upRun = 0
  /\ uploadLoading = FALSE
  /\ uploadProgress = 0
  /\ uploadAbortRef = NoController
  /\ aborted = {}
  /\ listing = {}
  /\ datasets = {}
  /\ alerts = {}
  /\ loading = TRUE
  /\ error = FALSE
  /\ pageLists = 1
  /\ deleting = {}
  /\ screen = [uploadLoading |-> FALSE, loading |-> TRUE, error |-> FALSE, rows |-> {}]

\* the state the next render of the datasets page shows: the flags that
\* decide which buttons there are, and the datasets that get a row
PageState ==
  [uploadLoading |-> uploadLoading, loading |-> loading, error |-> error,
   rows |-> { d.id : d \in datasets }]

\* the updates an event handler makes are rendered with the event, before
\* anything else runs, and with them every update made before that awaits
\* its render; the updates made outside of event handlers wait for a render
\* of their own or for the next event
RenderedWithEvent == screen' = PageState'

\* a faulty variant: the finally block leaves uploadLoading set
UploadFinallyMutant ==
  /\ uploadLoading' = uploadLoading
  /\ uploadProgress' = 0
  /\ uploadAbortRef' = NoController

\* finally { setUploadLoading(false); setUploadProgress(0); uploadAbortRef.current = null; }
UploadFinally ==
  /\ uploadLoading' = FALSE
  /\ uploadProgress' = 0
  /\ uploadAbortRef' = NoController

\* catch (err) { ... alert(detail || uploadError) } of the handleUpload call k
UploadCatch(k, detail) ==
  alerts' = IF IgnoredAsAbort(detail) THEN alerts ELSE alerts \cup {k}

\* what handleUpload does once multipartUploadDataset has taken a step: its
\* catch and finally when the function rejected with the given message, else
\* the onProgressBytes callback where the step calls it
AfterUploadStep(message, reports) ==
  /\ IF upPc' = "failed"
       THEN UploadCatch(upRun, message) /\ UploadFinally
       ELSE /\ uploadProgress' =
                 IF reports THEN ProgressPct(uploadedBytes', totalBytes') ELSE uploadProgress
            /\ UNCHANGED <<uploadLoading, uploadAbortRef, alerts>>
  /\ UNCHANGED <<uploads, upRun, aborted, listing, datasets, listVars, screen>>

\* handleUpload, with a file of the given size chosen in the form, up to its
\* first await.  The submit button is disabled while the page as rendered
\* has uploadLoading set.  (The model follows one multipartUploadDataset call
\* at a time.)
HandleUpload(size, token, baseURL) ==
  /\ ~screen.uploadLoading
  /\ uploads < MaxUploads
  /\ upPc \notin UpActive
  /\ uploads' = uploads + 1
  /\ aborted' = aborted \cup ({uploadAbortRef} \ {NoController})
  /\ IF token = <<>>
       THEN /\ UploadCatch(uploads + 1, UnauthorizedMessage)
            /\ UploadFinally
            /\ UNCHANGED <<upRun, upVars>>
       ELSE /\ upRun' = uploads + 1
            /\ UploadBegin(size, token, baseURL)
            /\ IF upPc' = "failed"
                 THEN /\ UploadCatch(uploads + 1, ConfigMessage)
                      /\ UploadFinally
                 ELSE /\ uploadLoading' = TRUE
                      /\ uploadProgress' = 0
                      /\ uploadAbortRef' = uploads + 1
                      /\ UNCHANGED alerts
  /\ UNCHANGED <<listing, datasets, listVars>>
  /\ RenderedWithEvent

\* the init response arrived while handleUpload awaits the upload
DsInitOk(resp) ==
  /\ upRun # 0
  /\ InitOk(resp)
  /\ AfterUploadStep("Multipart init returned invalid dataset_id/upload_id", TRUE)

DsResponseNotOk ==
  /\ upRun # 0
  /\ ResponseNotOk
  /\ UNCHANGED dsVars

DsUploadStepFails(message) ==
  /\ upRun # 0
  /\ UploadStepFails
  /\ AfterUploadStep(message, FALSE)

DsPresignOk ==
  /\ upRun # 0
  /\ PresignOk
  /\ UNCHANGED dsVars

DsPutOk(etagRaw) ==
  /\ upRun # 0
  /\ PutOk(etagRaw)
  /\ AfterUploadStep("Missing ETag for part 1", TRUE)

\* the upload resolved: the optimistic row, then  await loadDatasets()
DsCompleteOk ==
  /\ upRun # 0
  /\ CompleteOk
  /\ datasets' = AddOptimistic(datasets, upRun)
  /\ listing' = listing \cup {upRun}
  /\ loading' = TRUE
  /\ UNCHANGED <<uploads, upRun, uploadLoading, uploadProgress, uploadAbortRef,
                 aborted, alerts, error, pageLists, deleting, screen>>

\* what getAll may give: a rejection, or the datasets the server lists
ListResults ==
  {[ok |-> FALSE, data |-> {}]} \cup { [ok |-> TRUE, data |-> d] : d \in SUBSET (1..uploads) }

\* loadDatasets after its await: the merge and setError('') when getAll
\* resolved with the datasets the server lists, setError(...) when it
\* rejected, and setLoading(false) in either case
LoadDatasetsEnd(result) ==
  /\ datasets' = IF result.ok THEN MergeDatasets(datasets, result.data) ELSE datasets
  /\ error' = ~result.ok
  /\ loading' = FALSE

\* the loadDatasets that the handleUpload call k awaits is over (it catches
\* its own errors); handleUpload's finally follows
LoadDatasetsDone(k, result) ==
  /\ k \in listing
  /\ listing' = listing \ {k}
  /\ LoadDatasetsEnd(result)
  /\ UploadFinally
  /\ UNCHANGED <<uploads, upRun, aborted, alerts, pageLists, deleting, screen>>
  /\ UNCHANGED upVars

\* the page itself: its other state does not touch the upload
pageOnly == <<uploads, upRun, uploadLoading, uploadProgress, uploadAbortRef, aborted,
              listing, alerts>>

\* the loadDatasets of the mount effect or of the retry button is over
PageListDone(result) ==
  /\ pageLists > 0
  /\ pageLists' = pageLists - 1
  /\ LoadDatasetsEnd(result)
  /\ UNCHANGED <<pageOnly, deleting, screen>>
  /\ UNCHANGED upVars

\* onRetry={loadDatasets}: the button is on screen when the page was rendered
\* with the error and without loading
RetryLoadDatasets ==
  /\ ~screen.loading
  /\ screen.error
  /\ pageLists + Cardinality(deleting) < MaxPageRequests
  /\ pageLists' = pageLists + 1
  /\ loading' = TRUE
  /\ UNCHANGED <<pageOnly, datasets, error, deleting>>
  /\ UNCHANGED upVars
  /\ RenderedWithEvent

\* handleDelete, up to the await; the rows are on screen when the page was
\* rendered neither loading nor in error
HandleDelete(id) ==
  /\ ~screen.loading
  /\ ~screen.error
  /\ id \in screen.rows
  /\ id \notin deleting
  /\ pageLists + Cardinality(deleting) < MaxPageRequests
  /\ error' = FALSE
  /\ deleting' = deleting \cup {id}
  /\ UNCHANGED <<pageOnly, datasets, loading, pageLists>>
  /\ UNCHANGED upVars
  /\ RenderedWithEvent

\* datasetApi.delete resolved
DeleteOk(id) ==
  /\ id \in deleting
  /\ deleting' = deleting \ {id}
  /\ datasets' = { d \in datasets : d.id # id }
  /\ UNCHANGED <<pageOnly, loading, error, pageLists, screen>>
  /\ UNCHANGED upVars

\* datasetApi.delete rejected
DeleteFails(id) ==
  /\ id \in deleting
  /\ deleting' = deleting \ {id}
  /\ error' = TRUE
  /\ UNCHANGED <<pageOnly, datasets, loading, pageLists, screen>>
  /\ UNCHANGED upVars

\* handleCancelUpload; the button is on screen when the page was rendered
\* with uploadLoading set.  Aborting the
\* signal rejects the fetch (or the body read) the upload awaits, and the
\* rejection runs through multipartUploadDataset and handleUpload's catch and
\* finally before any other event is handled.  While the body of a response
\* that was not ok is being read, the abort is swallowed by the catch around
\* the read and the Error of the failed response is thrown.
HandleCancelUpload ==
  /\ screen.uploadLoading
  /\ aborted' = aborted \cup ({uploadAbortRef} \ {NoController})
  /\ uploadAbortRef' = NoController
  /\ uploadLoading' = FALSE
  /\ uploadProgress' = 0
  /\ IF uploadAbortRef # NoController /\ uploadAbortRef = upRun /\ upPc \in UpActive
       THEN /\ UpThrow(UpAwaited)
            /\ UploadCatch(upRun, IF upPc = "errbody" THEN PlainMessage ELSE AbortErrorMessage)
            /\ UNCHANGED <<totalBytes, initResp, partNumber, parts, uploadedBytes,
                           upChunks, completeBody>>
       ELSE UNCHANGED <<upVars, alerts>>
  /\ UNCHANGED <<uploads, upRun, listing, datasets, listVars>>
  /\ RenderedWithEvent

\* React renders the datasets page with the updates made since the last
\* render
DsCommit ==
  /\ screen # PageState
  /\ screen' = PageState
  /\ UNCHANGED <<uploads, upRun, uploadLoading, uploadProgress, uploadAbortRef, aborted,
                 listing, datasets, alerts, listVars>>
  /\ UNCHANGED upVars


\* ------------------------------------------------------------------------
\* Specifications
\* ------------------------------------------------------------------------

UploadNext ==
  \/ \E size \in FileSizes, token \in UploadTokens, baseURL \in BaseURLs :
        UploadStart(size, token, baseURL) /\ UNCHANGED <<authVars, pageVars, dsVars>>
  \/ \E d \in IdFields, u \in IdFields, p \in PartSizeFields :
        /\ InitOk([dataset_id |-> d, upload_id |-> u, part_size_bytes |-> p])
        /\ UNCHANGED <<authVars, pageVars, dsVars>>
  \/ ResponseNotOk /\ UNCHANGED <<authVars, pageVars, dsVars>>
  \/ UploadStepFails /\ UNCHANGED <<authVars, pageVars, dsVars>>
  \/ PresignOk /\ UNCHANGED <<authVars, pageVars, dsVars>>
  \/ \E e \in EtagHeaders : PutOk(e) /\ UNCHANGED <<authVars, pageVars, dsVars>>
  \/ CompleteOk /\ UNCHANGED <<authVars, pageVars, dsVars>>

\* a call of multipartUploadDataset, with nothing else going on
UploadStartState == UploadInit /\ AuthIdle /\ PagesIdle /\ DatasetsInit

SpecUpload == UploadStartState /\ [][UploadNext]_vars

DatasetsNext ==
  \/ \E size \in FormFileSizes, token \in UploadTokens, baseURL \in BaseURLs :
        HandleUpload(size, token, baseURL) /\ UNCHANGED <<authVars, pageVars>>
  \/ \E resp \in FormInitResponses : DsInitOk(resp) /\ UNCHANGED <<authVars, pageVars>>
  \/ DsResponseNotOk /\ UNCHANGED <<authVars, pageVars>>
  \/ \E m \in FailureMessages : DsUploadStepFails(m) /\ UNCHANGED <<authVars, pageVars>>
  \/ DsPresignOk /\ UNCHANGED <<authVars, pageVars>>
  \/ \E e \in FormEtagHeaders : DsPutOk(e) /\ UNCHANGED <<authVars, pageVars>>
  \/ DsCompleteOk /\ UNCHANGED <<authVars, pageVars>>
  \/ \E k \in listing : \E result \in ListResults :
        LoadDatasetsDone(k, result) /\ UNCHANGED <<authVars, pageVars>>
  \/ HandleCancelUpload /\ UNCHANGED <<authVars, pageVars>>
  \/ \E result \in ListResults : PageListDone(result) /\ UNCHANGED <<authVars, pageVars>>
  \/ RetryLoadDatasets /\ UNCHANGED <<authVars, pageVars>>
  \/ \E id \in 1..uploads : HandleDelete(id) /\ UNCHANGED <<authVars, pageVars>>
  \/ \E id \in deleting : DeleteOk(id) /\ UNCHANGED <<authVars, pageVars>>
  \/ \E id \in deleting : DeleteFails(id) /\ UNCHANGED <<authVars, pageVars>>
  \/ DsCommit /\ UNCHANGED <<authVars, pageVars>>

\* the datasets page as a whole: uploads, cancels, renders, reloads of the
\* list and deletions of rows
DatasetsStartState == DatasetsInit /\ UploadInit /\ AuthIdle /\ PagesIdle

SpecDatasets == DatasetsStartState /\ [][DatasetsNext]_vars

UploadFormNext ==
  \/ \E size \in FormFileSizes, token \in UploadTokens, baseURL \in BaseURLs :
        HandleUpload(size, token, baseURL) /\ UNCHANGED <<authVars, pageVars>>
  \/ \E resp \in FormInitResponses : DsInitOk(resp) /\ UNCHANGED <<authVars, pageVars>>
  \/ DsResponseNotOk /\ UNCHANGED <<authVars, pageVars>>
  \/ \E m \in FailureMessages : DsUploadStepFails(m) /\ UNCHANGED <<authVars, pageVars>>
  \/ DsPresignOk /\ UNCHANGED <<authVars, pageVars>>
  \/ \E e \in FormEtagHeaders : DsPutOk(e) /\ UNCHANGED <<authVars, pageVars>>
  \/ DsCompleteOk /\ UNCHANGED <<authVars, pageVars>>
  \/ \E k \in listing : \E result \in ListResults :
        LoadDatasetsDone(k, result) /\ UNCHANGED <<authVars, pageVars>>
  \/ HandleCancelUpload /\ UNCHANGED <<authVars, pageVars>>
  \/ \E result \in ListResults : PageListDone(result) /\ UNCHANGED <<authVars, pageVars>>
  \/ RetryLoadDatasets /\ UNCHANGED <<authVars, pageVars>>
  \/ DsCommit /\ UNCHANGED <<authVars, pageVars>>

\* the datasets page is opened and files are uploaded through its form, with
\* cancels, renders and reloads of the list; no row is deleted
UploadFormStartState == DatasetsInit /\ UploadInit /\ AuthIdle /\ PagesIdle

SpecUploadForm == UploadFormStartState /\ [][UploadFormNext]_vars

AuthNext ==
  \/ \E i \in Requests :
        Issue(i) /\ UNCHANGED <<upVars, pageVars, dsVars>>
  \/ \E i \in Requests : \E p \in IssuedPairs :
        ReqRefreshOk(i, p) /\ UNCHANGED <<upVars, pageVars, dsVars>>
  \/ \E i \in Requests :
        ReqRefreshFail(i) /\ UNCHANGED <<upVars, pageVars, dsVars>>
  \/ \E i \in Requests : ResponseOk(i) /\ UNCHANGED <<upVars, pageVars, dsVars>>
  \/ \E i \in Requests : \E st \in ErrorStatuses :
        ResponseError(i, st) /\ UNCHANGED <<upVars, pageVars, dsVars>>
  \/ \E i \in Requests : \E p \in IssuedPairs :
        RespRefreshOk(i, p) /\ UNCHANGED <<upVars, pageVars, dsVars>>
  \/ \E i \in Requests :
        RespRefreshFail(i) /\ UNCHANGED <<upVars, pageVars, dsVars>>
  \/ \E i \in Requests : \E p \in IssuedPairs :
        Login(i, p) /\ UNCHANGED <<upVars, pageVars, dsVars>>
  \/ Logout /\ UNCHANGED <<upVars, pageVars, dsVars>>
  \/ Tick /\ UNCHANGED <<upVars, pageVars, dsVars>>

\* requests through apiClient, with nothing else going on
AuthStartState == AuthInit /\ UploadInit /\ PagesIdle /\ DatasetsInit

SpecAuth == AuthStartState /\ [][AuthNext]_vars

PagesNext ==
  \/ TMount /\ UNCHANGED <<upVars, authVars, dsVars>>
  \/ Commit /\ UNCHANGED <<upVars, authVars, dsVars>>
  \/ FlushEffects /\ UNCHANGED <<upVars, authVars, dsVars>>
  \/ \E r \in RunningIds : RestoreModelsDone(r) /\ UNCHANGED <<upVars, authVars, dsVars>>
  \/ TimerFire /\ UNCHANGED <<upVars, authVars, dsVars>>
  \/ Visible /\ UNCHANGED <<upVars, authVars, dsVars>>
  \/ Retry /\ UNCHANGED <<upVars, authVars, dsVars>>
  \/ \E l \in Loads : \E pl \in Payloads(l.jobId) :
        StateOk(l, pl) /\ UNCHANGED <<upVars, authVars, dsVars>>
  \/ \E l \in Loads : LoadOk(l) /\ UNCHANGED <<upVars, authVars, dsVars>>
  \/ \E l \in Loads : \E err \in Errors : LoadFails(l, err) /\ UNCHANGED <<upVars, authVars, dsVars>>
  \/ DMount /\ UNCHANGED <<upVars, authVars, dsVars>>
  \/ DCommit /\ UNCHANGED <<upVars, authVars, dsVars>>
  \/ DFlushEffects /\ UNCHANGED <<upVars, authVars, dsVars>>
  \/ IntervalFire /\ UNCHANGED <<upVars, authVars, dsVars>>
  \/ DVisible /\ UNCHANGED <<upVars, authVars, dsVars>>
  \/ \E l \in Loads : \E r \in RunningIds : DModelsDone(l, r) /\ UNCHANGED <<upVars, authVars, dsVars>>
  \/ \E l \in Loads : DModelsFail(l) /\ UNCHANGED <<upVars, authVars, dsVars>>
  \/ \E l \in Loads : \E pl \in Payloads(l.jobId) :
        DStateOk(l, pl) /\ UNCHANGED <<upVars, authVars, dsVars>>
  \/ \E l \in Loads : \E err \in Errors : DStateFails(l, err) /\ UNCHANGED <<upVars, authVars, dsVars>>

\* the training page or the dashboard is opened and follows the job it finds:
\* timers, visibility changes, retries and responses of every kind, and no
\* training is started
PagesStartState == PagesInit /\ UploadInit /\ AuthIdle /\ DatasetsInit

SpecPages == PagesStartState /\ [][PagesNext]_vars

TrainingNext ==
  \/ TMount /\ UNCHANGED <<upVars, authVars, dsVars>>
  \/ Commit /\ UNCHANGED <<upVars, authVars, dsVars>>
  \/ FlushEffects /\ UNCHANGED <<upVars, authVars, dsVars>>
  \/ \E r \in RunningIds : RestoreModelsDone(r) /\ UNCHANGED <<upVars, authVars, dsVars>>
  \/ TimerFire /\ UNCHANGED <<upVars, authVars, dsVars>>
  \/ Visible /\ UNCHANGED <<upVars, authVars, dsVars>>
  \/ Retry /\ UNCHANGED <<upVars, authVars, dsVars>>
  \/ \E d \in DatasetIds : HandleTrain(d) /\ UNCHANGED <<upVars, authVars, dsVars>>
  \/ TrainAsyncOk /\ UNCHANGED <<upVars, authVars, dsVars>>
  \/ TrainAsyncFail /\ UNCHANGED <<upVars, authVars, dsVars>>
  \/ \E l \in Loads : \E pl \in Payloads(l.jobId) :
        StateOk(l, pl) /\ UNCHANGED <<upVars, authVars, dsVars>>
  \/ \E l \in Loads : LoadOk(l) /\ UNCHANGED <<upVars, authVars, dsVars>>
  \/ \E l \in Loads : \E err \in Refusals : LoadFails(l, err) /\ UNCHANGED <<upVars, authVars, dsVars>>

\* the training page is opened and trainings are started from it; the server
\* answers every job-state request, with the state or with a refusal
TrainingStartState ==
  PagesInit /\ page = "training" /\ UploadInit /\ AuthIdle /\ DatasetsInit

SpecTraining == TrainingStartState /\ [][TrainingNext]_vars

\* ========================================================================
\* Properties of multipartUploadDataset
\* ========================================================================

\* the position of request r in the list of issued requests, 0 if not issued
SentAt(r) ==
  IF \E i \in 1..Len(upSent) : upSent[i] = r
    THEN CHOOSE i \in 1..Len(upSent) : upSent[i] = r
    ELSE 0

CompleteSent == SentAt(Req("complete", 0)) > 0

\* C1: the complete request is sent only after init succeeded and every part
\* 1..totalParts was presigned, PUT with an OK response and gave a non-empty
\* ETag; the parts of its body are then exactly the parts 1..totalParts, one
\* entry each, in ascending order.
C1_CompleteAfterAllParts ==
  CompleteSent =>
    /\ Req("init", 0) \in upOk
    /\ \A k \in 1..totalParts :
          /\ Req("presign", k) \in upOk
          /\ Req("put", k) \in upOk
          /\ SentAt(Req("presign", k)) < SentAt(Req("complete", 0))
          /\ SentAt(Req("put", k)) < SentAt(Req("complete", 0))
    /\ Len(completeBody) = totalParts
    /\ \A k \in 1..Len(completeBody) :
          /\ completeBody[k].part_number = k
          /\ completeBody[k].etag # <<>>

\* an upload of several parts was committed
C1_Witness ==
  /\ upPc = "done"
  /\ totalParts >= 2
  /\ Len(completeBody) = totalParts

\* the request that the strictly sequential order puts at position i
ExpectedRequest(i, total) ==
  IF i = 1 THEN Req("init", 0)
  ELSE IF i = 2 * total + 2 THEN Req("complete", 0)
  ELSE IF i % 2 = 0 THEN Req("presign", i \div 2)
  ELSE Req("put", i \div 2)

\* C2: requests are issued in the order init, (presign k, PUT k) for
\* k = 1..totalParts, complete; the presign of part k+1 is issued only after
\* the PUT of part k returned OK with an ETag; at most one request of the
\* upload is in flight at any time.
C2_StrictlySequential ==
  /\ Len(upSent) <= 2 * totalParts + 2
  /\ \A i \in 1..Len(upSent) : upSent[i] = ExpectedRequest(i, totalParts)
  /\ \A i \in 2..Len(upSent) : upSent[i - 1] \in upOk
  /\ \A i \in 1..Len(upSent) :
        (upSent[i].kind = "presign" /\ upSent[i].part > 1) =>
          /\ Len(parts) >= upSent[i].part - 1
          /\ parts[upSent[i].part - 1].part_number = upSent[i].part - 1
          /\ parts[upSent[i].part - 1].etag # <<>>
  /\ Cardinality(upInflight) <= 1

\* the presign of the third part is in flight
C2_Witness ==
  /\ upPc = "presign"
  /\ partNumber = 3
  /\ upInflight = {Req("presign", 3)}

RECURSIVE SumChunks(_)
SumChunks(cs) ==
  IF cs = <<>> THEN 0 ELSE (cs[1].to - cs[1].from) + SumChunks(Tail(cs))

\* the chunk the code cuts for part k
ChunkOf(k) ==
  FileSlice(totalBytes, ChunkStart(k, partSize), ChunkEnd(k, partSize, totalBytes))

\* the init response was accepted: the part size and the part count are known
Chunked == upPc \in {"presign", "put", "complete", "done"}

\* C3: totalParts = max(1, ceil(size / partSize)); chunk k covers the bytes
\* [(k-1)*partSize, min(k*partSize, size)); the chunks are contiguous, do not
\* overlap, hold at most partSize bytes each and their sizes sum to the file
\* size (an empty file is one empty part).
C3_ChunksPartitionFile ==
  Chunked =>
    /\ partSize > 0
    /\ totalParts >= 1
    /\ totalParts * partSize >= totalBytes
    /\ totalParts > 1 => (totalParts - 1) * partSize < totalBytes
    /\ \A k \in 1..totalParts :
          /\ ChunkOf(k).from = (k - 1) * partSize
          /\ ChunkOf(k).to = Min(k * partSize, totalBytes)
          /\ ChunkOf(k).from <= ChunkOf(k).to
          /\ ChunkOf(k).to - ChunkOf(k).from <= partSize
          /\ k < totalParts => ChunkOf(k).to = ChunkOf(k + 1).from
    /\ ChunkOf(1).from = 0
    /\ ChunkOf(totalParts).to = totalBytes
    /\ SumChunks([k \in 1..totalParts |-> ChunkOf(k)]) = totalBytes
    /\ \A k \in 1..Len(upChunks) : upChunks[k] = ChunkOf(k)
    /\ upPc = "done" => uploadedBytes = totalBytes /\ Len(upChunks) = totalParts

\* a file of two full parts and one byte was uploaded in three chunks
C3_Witness ==
  /\ upPc = "done"
  /\ Len(upChunks) = 3
  /\ upChunks[3].to - upChunks[3].from = 1
  /\ uploadedBytes = totalBytes

\* ========================================================================
\* Properties of the training page's job-state polling
\* ========================================================================

\* a load issued by the poll timer failed with a network error or with an
\* error other than 401/403/404
PollAttemptFails(l, err) ==
  /\ l.pc = "state"
  /\ l.reason = "poll"
  /\ ~(err.axios /\ err.status \in {401, 403, 404})
  /\ LoadFails(l, err)

\* a load of the training page, or a refresh of the dashboard, ends by the step
LoadEnds == BagCardinality(loads') < BagCardinality(loads)

\* a poll is scheduled, in flight or about to be scheduled: the timeout is
\* set, a load is in flight, or the polling effect is to run, now or after the
\* render of the queued updates, for a tracked job that has not ended
PollComing ==
  \/ timer.armed
  \/ loads # EmptyBag
  \/ pollDue /\ PollEffectArms(persistedJobId, trainingState)
  \/ /\ queued.dirty
     /\ \/ queued.pj # persistedJobId
        \/ StateObjectChanges(queued)
        \/ queued.pd # pollDelayMs
     /\ PollEffectArms(queued.pj, queued.ts)

\* C4: while a job is tracked and its state is not terminal, every poll
\* attempt that completes (with success, with a network error or with an error
\* other than 401/403/404) leaves the polling going: a timeout is set for the
\* next poll or is about to be set by the polling effect, or a load is still
\* in flight.
C4_PollingNeverStalls ==
  [][LoadEnds =>
       \A l \in Loads :
         ( /\ \/ l.pc = "progress" /\ LoadOk(l)
              \/ \E err \in Errors : PollAttemptFails(l, err)
           /\ Latest'.pj # NoJob
           /\ Latest'.ts # NoState
           /\ ~Latest'.ts.is_terminal )
         => PollComing']_vars

\* C5: pollDelayMs is always within [3000, 15000], and one of 3000, 6000,
\* 12000, 15000, as rendered and as queued; a successful job-state load resets
\* it to 3000; a load that fails with a network error, or a poll that fails
\* with another error than 401/403/404, sets it to
\* min(15000, max(3000, 2 * previous)); a render takes over the queued value.
C5_BackoffBounded ==
  [][/\ pollDelayMs' \in {3000, 6000, 12000, 15000}
     /\ Latest'.pd \in {3000, 6000, 12000, 15000}
     /\ Commit => pollDelayMs' = Latest.pd
     /\ LoadEnds =>
          \A l \in Loads :
            /\ (l.pc = "progress" /\ LoadOk(l)) => Latest'.pd = 3000
            /\ l.pc = "state" =>
                 \A err \in Errors :
                   ( /\ \/ err.axios /\ err.status = 0
                        \/ l.reason = "poll" /\ ~(err.axios /\ err.status \in {401, 403, 404})
                     /\ LoadFails(l, err) )
                   => Latest'.pd = IF 2 * Latest.pd > 15000 THEN 15000
                                   ELSE IF 2 * Latest.pd < 3000 THEN 3000
                                   ELSE 2 * Latest.pd]_vars

\* the back-off reached its cap while a job is tracked and polled
C5_Witness ==
  /\ page = "training"
  /\ persistedJobId # NoJob
  /\ pollDelayMs = 15000
  /\ timer = Armed(persistedJobId, 15000)

\* a job-state request of the training page for the tracked job fails with
\* 403 or 404
TrackedLoadRefused(l, err) ==
  /\ l.pc = "state"
  /\ l.jobId = Latest.pj
  /\ err.axios
  /\ err.status \in {403, 404}
  /\ LoadFails(l, err)

\* the same on the dashboard, where the tracked job is the persisted one
TrackedRefreshRefused(l, err) ==
  /\ l.pc = "state"
  /\ l.jobId = storage
  /\ err.status \in {403, 404}
  /\ DStateFails(l, err)

\* C6 as stated: when a job-state request for the tracked job fails with 403
\* or 404 the client retries: a further job-state request for that job is
\* issued by the step, or scheduled, or about to be scheduled by an effect.
C6_RetryOn404 ==
  [][LoadEnds => \A l \in Loads : \A err \in Errors :
        /\ TrackedLoadRefused(l, err) =>
             \/ timer'.armed /\ timer'.jobId = l.jobId
             \/ \E m \in BagToSet(loads') : m.jobId = l.jobId /\ m.pc = "state"
             \/ /\ pollDue'
                /\ persistedJobId' = l.jobId
                /\ PollEffectArms(persistedJobId', trainingState')
        /\ TrackedRefreshRefused(l, err) =>
             \/ interval' # 0
             \/ intervalDue' /\ IntervalEffectArms(latestTrainingState')
             \/ \E m \in BagToSet(loads') : m.jobId = l.jobId /\ m.pc = "state"]_vars

\* C6, amended: when a job-state request for the tracked job fails with 403 or
\* 404 the client does not retry but drops the tracking: the handler removes
\* the persisted job id from localStorage, sets persistedJobId and
\* trainingState (on the dashboard latestTrainingState) to null for the next
\* render, issues no request and sets no timeout or interval; once a render
\* without a job has run its effects, no timeout or interval is set.
C6_DropsTrackingOn404 ==
  [][/\ LoadEnds => \A l \in Loads : \A err \in Errors :
          /\ TrackedLoadRefused(l, err) =>
               /\ storage' = NoJob
               /\ Latest'.pj = NoJob
               /\ Latest'.ts = NoState
               /\ timer' = timer
               /\ loads' = loads (-) SetToBag({l})
          /\ TrackedRefreshRefused(l, err) =>
               /\ storage' = NoJob
               /\ DLatest'.ts = NoState
               /\ interval' = interval
               /\ loads' = loads (-) SetToBag({l})
     /\ (persistedJobId' = NoJob /\ ~pollDue') => ~timer'.armed
     /\ (latestTrainingState' = NoState /\ ~intervalDue') => interval' = 0]_vars

\* the job found at the start was tracked, its poll delay was backed off, and
\* a 403/404 has removed it: the state without a job is rendered, its effects
\* have run, and nothing is tracked, scheduled or in flight
C6_Witness ==
  /\ page = "training"
  /\ pollDelayMs = 6000
  /\ storage = NoJob
  /\ persistedJobId = NoJob
  /\ trainingState = NoState
  /\ ~queued.dirty
  /\ ~pollDue
  /\ timer = NoTimer
  /\ loads = EmptyBag

\* C11: when loadJobState fails with 403 or 404 the tracking is dropped: the
\* persisted job id is removed from localStorage, persistedJobId and
\* trainingState become null and pollDelayMs keeps its value; when it fails
\* with 401, the tracked job id, the training state and the persisted id are
\* left as they are; and while no job is tracked, no poll is scheduled: no
\* timeout is set and none fires.
C11_DropOn403Or404Keep401 ==
  [][/\ LoadEnds =>
          \A l \in Loads : l.pc = "state" =>
            \A err \in Errors :
              /\ (err.axios /\ err.status \in {403, 404} /\ LoadFails(l, err))
                 => /\ storage' = NoJob
                    /\ Latest'.pj = NoJob
                    /\ Latest'.ts = NoState
                    /\ Latest'.pd = Latest.pd
              /\ (err.axios /\ err.status = 401 /\ LoadFails(l, err))
                 => /\ storage' = storage
                    /\ Latest'.pj = Latest.pj
                    /\ Latest'.ts = Latest.ts
     /\ (Latest.pj = NoJob /\ storage = NoJob)
        => /\ ~TimerFire
           /\ timer'.armed => timer' = timer]_vars

\* nothing of the training page is pending: no load in flight, no handleTrain
\* and no restoreLastJob under way, no update to render, no effect to run
Quiescent ==
  /\ page = "training"
  /\ mounted
  /\ loads = EmptyBag
  /\ trainPc = "idle"
  /\ restorePc = "idle"
  /\ ~queued.dirty
  /\ ~pollDue
  /\ onVisibleJob = persistedJobId

\* C12: a job-state response (success, or 403/404) for a job other than the
\* tracked one changes neither persistedJobId nor trainingState nor the id
\* in localStorage, and in every quiescent state persistedJobId is the id in
\* localStorage.
C12_LateResponseIgnored ==
  [][/\ LoadEnds =>
          \A l \in Loads :
            ( /\ Latest.pj # NoJob
              /\ l.jobId # Latest.pj
              /\ \/ l.pc = "progress" /\ LoadOk(l)
                 \/ l.pc = "state" /\ \E err \in Errors :
                       err.axios /\ err.status \in {403, 404} /\ LoadFails(l, err) )
            => /\ Latest'.pj = Latest.pj
               /\ Latest'.ts = Latest.ts
               /\ storage' = storage
     /\ Quiescent' => persistedJobId' = storage']_vars

\* C13: a start-training request is issued only while no tracked job is
\* active (persistedJobId set, trainingState present, not terminal, status not
\* 'failed'), while no other start is being submitted, and with a dataset id
\* that is not empty; so at most one start request is under way.
C13_OneTrainingAtATime ==
  [][\A d \in DatasetIds :
        HandleTrain(d) =>
          /\ ~( /\ persistedJobId # NoJob
                /\ trainingState # NoState
                /\ ~trainingState.is_terminal
                /\ trainingState.status # "failed" )
          /\ ~submitting
          /\ trainPc = "idle"
          /\ d # ""
          /\ trainPc' = "starting"
          /\ submitting']_vars

\* a start request is under way while a finished job is tracked
C13_Witness ==
  /\ page = "training"
  /\ trainPc = "starting"
  /\ submitting
  /\ persistedJobId # NoJob
  /\ trainingState.is_terminal

\* C10: once the loaded state of a job is terminal, the poll timeout is not
\* set for that job again and does not fire for it, and the dashboard's
\* interval is not set again and does not fire: the timers cause no further
\* job-state request for the job.
C10_NoPollAfterTerminal ==
  [][/\ (Latest.pj # NoJob /\ Latest.ts.is_terminal) =>
          /\ ~(TimerFire /\ timer.jobId = Latest.pj)
          /\ ~(timer'.armed /\ timer' # timer /\ timer'.jobId = Latest.pj)
     /\ DLatest.ts.is_terminal =>
          /\ ~IntervalFire
          /\ ~(interval' # 0 /\ interval = 0)]_vars

\* ========================================================================
\* Properties of apiClient's interceptors
\* ========================================================================

\* request i is transmitted by the step
Transmitted(i) == req'[i].sends = req[i].sends + 1

\* request i is rejected by the step without being transmitted in it, and
\* localStorage holds no token afterwards
RejectedAndCleared(i) ==
  /\ req'[i].pc = "rejected"
  /\ ~Transmitted(i)
  /\ access_token' = NoToken
  /\ refresh_token' = NoToken

\* C7: a request that comes to the request interceptor while the stored
\* access token is expired is not transmitted before a refresh succeeded: with
\* a refresh token that is present and not expired the refresh is awaited,
\* and when it succeeds the new pair is stored and the request goes out with
\* the new access token; without such a refresh token, or when the refresh
\* fails, the request is rejected without being sent and both tokens are
\* removed from localStorage; the same holds for the request which login()
\* sends after it stored the pair it was given.
C7_ExpiredTokenRefreshOrReject ==
  [][\A i \in Requests :
        /\ ( /\ Issue(i)
             /\ access_token \notin {NoToken, EmptyToken}
             /\ isTokenExpired(access_token, now) )
           => /\ ~Transmitted(i)
              /\ IF refresh_token \notin {NoToken, EmptyToken}
                      /\ refresh_token.hasExp /\ refresh_token.exp >= now
                   THEN /\ req'[i].pc = "reqRefresh"
                        /\ UNCHANGED <<access_token, refresh_token>>
                   ELSE RejectedAndCleared(i)
        /\ \A p \in IssuedPairs :
             (Login(i, p) /\ isTokenExpired(p.access, now))
             => /\ ~Transmitted(i)
                /\ IF p.refresh.exp >= now
                     THEN /\ req'[i].pc = "reqRefresh"
                          /\ access_token' = p.access
                          /\ refresh_token' = p.refresh
                     ELSE RejectedAndCleared(i)
        /\ ( /\ req[i].pc = "reqRefresh"
             /\ req'[i].pc # "reqRefresh" )
           => \/ /\ req'[i].pc = "sent"
                 /\ Transmitted(i)
                 /\ srvGen' = srvGen + 1
                 /\ access_token'.gen = srvGen'
                 /\ refresh_token'.gen = srvGen'
                 /\ req'[i].auth = access_token'
              \/ RejectedAndCleared(i)
        /\ Transmitted(i)
           => \/ req[i].pc = "reqRefresh"
              \/ access_token' \in {NoToken, EmptyToken}
              \/ ~isTokenExpired(access_token', now)]_vars

\* only request 1 was made: the stored access token is expired, so the
\* request interceptor holds the request back, untransmitted, while it awaits
\* the refresh it started with the stored refresh token
C7_Witness ==
  /\ \A j \in Requests \ {1} : req[j].pc = "free"
  /\ req[1].pc = "reqRefresh"
  /\ req[1].sends = 0
  /\ isTokenExpired(access_token, now)
  /\ req[1].used = refresh_token
  /\ ~isTokenExpired(refresh_token, now)

\* C8: the response interceptor refreshes at most once and re-sends at most
\* once for a request, and marks the request with _retry when it does; the
\* re-send needs the success of that refresh and, when it is transmitted, it
\* carries the access token which that refresh returned; a 401 for a request
\* marked _retry is rejected to the caller with no refresh, no re-send and no
\* change of the stored tokens.
C8_RetriedAtMostOnce ==
  [][\A i \in Requests :
        /\ req'[i].refreshes <= 1
        /\ req'[i].resends <= 1
        /\ req'[i].resends <= req'[i].refreshes
        /\ req'[i].refreshes = 1 => req'[i].retry
        /\ req'[i].resends = req[i].resends + 1
           => /\ req[i].pc = "respRefresh"
              /\ srvGen' = srvGen + 1
              /\ Transmitted(i)
                 => /\ req'[i].auth.gen = srvGen'
                    /\ req'[i].auth = access_token'
        /\ (req[i].retry /\ ResponseError(i, 401))
           => /\ req'[i].pc = "rejected"
              /\ req'[i].refreshes # req[i].refreshes + 1
              /\ req'[i].resends # req[i].resends + 1
              /\ ~Transmitted(i)
              /\ UNCHANGED <<access_token, refresh_token, srvGen>>]_vars

\* a request was answered with 401, the response interceptor refreshed and
\* the request is in flight for the second time, with the new access token
C8_Witness ==
  \E i \in Requests :
    /\ req[i].pc = "sent"
    /\ req[i].retry
    /\ req[i].refreshes = 1
    /\ req[i].resends = 1
    /\ req[i].sends = 2
    /\ req[i].auth.gen = srvGen
    /\ srvGen >= 1

\* the requests that await a POST /auth/refresh
Refreshing == { i \in Requests : req[i].pc \in {"reqRefresh", "respRefresh"} }

\* C9: at most one POST /auth/refresh is outstanding at any time, and the
\* failure of a refresh that used an older refresh token than the stored one
\* does not remove the stored pair.
C9_SingleFlightRefresh ==
  [][/\ Cardinality({ i \in Requests : req'[i].pc \in {"reqRefresh", "respRefresh"} }) <= 1
     /\ \A i \in Refreshing :
          ( /\ req'[i].pc = "rejected"
            /\ refresh_token # NoToken
            /\ req[i].used # refresh_token )
          => UNCHANGED <<access_token, refresh_token>>]_vars

\* C15: an init response without a dataset_id or without an upload_id makes
\* multipartUploadDataset reject ('Multipart init returned invalid
\* dataset_id/upload_id') without issuing a presign, PUT or complete request.
C15_MissingIdsRejected ==
  [][upPc = "init" =>
       \A d \in IdFields, u \in IdFields, p \in PartSizeFields :
          ( /\ d = Undefined \/ u = Undefined
            /\ InitOk([dataset_id |-> d, upload_id |-> u, part_size_bytes |-> p]) )
          => /\ upPc' = "failed"
             /\ upSent' = upSent
             /\ upInflight' = {}]_vars

\* ========================================================================
\* Properties of the datasets page's upload
\* ========================================================================

\* a step of the upload failed: the awaited fetch rejected or its response was
\* not ok, or a PUT was answered ok without a usable ETag
UploadStepFailed ==
  \/ \E m \in FailureMessages : DsUploadStepFails(m)
  \/ /\ upPc = "put"
     /\ \E e \in FormEtagHeaders : NormalizeEtag(e) = <<>> /\ DsPutOk(e)

\* C14: when a step of the upload fails (init, a presign or a PUT not ok, a
\* PUT response without ETag), multipartUploadDataset rejects at that step
\* without issuing another request; the complete request is not sent then or
\* later, no optimistic row is added for the upload, and uploadLoading is
\* false once the step has failed.
C14_FailureStopsUpload ==
  [][/\ (upPc \in UpActive /\ UploadStepFailed) =>
          /\ upPc' = "failed"
          /\ upSent' = upSent
          /\ upInflight' = {}
          /\ (UpAwaited.kind # "complete" => Req("complete", 0) \notin upInflight \cup upOk)
          /\ datasets' = datasets
          /\ uploadLoading' = FALSE
     /\ (upPc = "errbody" /\ upRun' = upRun) =>
          /\ upPc' \in {"errbody", "failed"}
          /\ upSent' = upSent
     /\ (upPc = "failed" /\ upRun # 0 /\ upRun' = upRun) =>
          /\ upPc' = "failed"
          /\ upSent' = upSent
          /\ OptimisticRow(upRun) \notin datasets']_vars

\* the upload of the page failed at its second part, after three requests
\* went well, and the page reported the failure
C14_Witness ==
  /\ upRun # 0
  /\ upPc = "failed"
  /\ partNumber = 2
  /\ Len(upSent) >= 4
  /\ upRun \in alerts
  /\ ~uploadLoading
  /\ OptimisticRow(upRun) \notin datasets

\* C16: handleCancelUpload aborts the signal of the upload in progress, which
\* then issues no further request, gets no dataset row and shows no alert;
\* uploadLoading is false and uploadProgress 0 after the cancel; and while an
\* upload is in progress uploadAbortRef holds that upload's controller (and
\* the cancel button is there to use it).
C16_CancelStopsUpload ==
  [][/\ HandleCancelUpload =>
          /\ uploadAbortRef # NoController => uploadAbortRef \in aborted'
          /\ ~uploadLoading'
          /\ uploadProgress' = 0
          /\ upPc \in UpActive =>
               /\ upPc' = "failed"
               /\ upSent' = upSent
               /\ upInflight' = {}
               /\ datasets' = datasets
               /\ alerts' = alerts
     /\ upPc' \in UpActive =>
          /\ uploadAbortRef' = upRun'
          /\ uploadLoading']_vars

====
